---- MODULE Spec2Model ----
(***************************************************************************)
(* Neodash-Site: the two text decoders (parseLevelList, parseHofRaw), the  *)
(* scalar helpers they use, and the fetch handlers that call them.         *)
(*                                                                         *)
(* A JavaScript string is modelled as a sequence of characters.  An ASCII  *)
(* character is the one-character string itself; any other code point cp   *)
(* is the token "<U+cp>" (cp in decimal).                                  *)
(***************************************************************************)
EXTENDS Integers, Sequences, FiniteSets, TLC

--------------------------------------------------------------------------
(* Characters and strings *)

Str(s) == [i \in 1..Len(s) |-> SubSeq(s, i, i)]

\* the printable ASCII characters but the grave accent (code 96), which a string
\* literal cannot hold: codes 32..95, and codes 97..126
AsciiLow == Str(" !\"#$%&'()*+,-./0123456789:;<=>?@ABCDEFGHIJKLMNOPQRSTUVWXYZ[\\]^_")

AsciiHigh == Str("abcdefghijklmnopqrstuvwxyz{|}~")

\* the character with code point cp
CodePointChar(cp) ==
    IF cp >= 32 /\ cp <= 95 THEN AsciiLow[cp - 31]
    ELSE IF cp >= 97 /\ cp <= 126 THEN AsciiHigh[cp - 96]
    ELSE IF cp = 9 THEN "\t"
    ELSE IF cp = 10 THEN "\n"
    ELSE IF cp = 12 THEN "\f"
    ELSE IF cp = 13 THEN "\r"
    ELSE "<U+" \o ToString(cp) \o ">"

\* ECMAScript WhiteSpace and LineTerminator code points (String.prototype.trim,
\* the StrWhiteSpaceChar of parseInt and Number)
WhiteSpaceCodePoints ==
    {9, 10, 11, 12, 13, 32, 160, 5760, 8232, 8233, 8239, 8287, 12288, 65279}
        \cup (8192..8202)

WhiteSpaceChars == {CodePointChar(cp) : cp \in WhiteSpaceCodePoints}

IsWhiteSpace(c) == c \in WhiteSpaceChars

RECURSIVE TrimStart(_)
TrimStart(s) ==
    IF s # <<>> /\ IsWhiteSpace(Head(s)) THEN TrimStart(Tail(s)) ELSE s

RECURSIVE TrimEnd(_)
TrimEnd(s) ==
    IF s # <<>> /\ IsWhiteSpace(s[Len(s)]) THEN TrimEnd(SubSeq(s, 1, Len(s) - 1))
    ELSE s

\* String.prototype.trim
Trim(s) == TrimEnd(TrimStart(s))

\* String.prototype.startsWith
StartsWith(s, p) == Len(s) >= Len(p) /\ SubSeq(s, 1, Len(p)) = p

\* String.prototype.includes, for a one-character needle
Includes(s, c) == \E i \in 1..Len(s) : s[i] = c

\* String.prototype.indexOf: the first position (1-based) of sep in s, 0 if none
IndexOf(s, sep) ==
    LET hits == {i \in 1..(Len(s) - Len(sep) + 1) : SubSeq(s, i, i + Len(sep) - 1) = sep}
    IN  IF hits = {} THEN 0 ELSE CHOOSE i \in hits : \A j \in hits : i <= j

\* String.prototype.split with a non-empty separator
RECURSIVE Split(_, _)
Split(s, sep) ==
    LET i == IndexOf(s, sep)
    IN  IF i = 0 THEN <<s>>
        ELSE <<SubSeq(s, 1, i - 1)>> \o Split(SubSeq(s, i + Len(sep), Len(s)), sep)

\* Array.prototype.join
RECURSIVE Join(_, _)
Join(parts, sep) ==
    IF parts = <<>> THEN <<>>
    ELSE IF Len(parts) = 1 THEN parts[1]
    ELSE parts[1] \o sep \o Join(Tail(parts), sep)

DigitChars == Str("0123456789")

IsDigit(c) == \E i \in 1..10 : DigitChars[i] = c

DigitValue(c) == (CHOOSE i \in 1..10 : DigitChars[i] = c) - 1

\* the decimal rendering of a natural number (a template literal of n)
RECURSIVE NatToStr(_)
NatToStr(n) ==
    IF n < 10 THEN <<DigitChars[n + 1]>>
    ELSE NatToStr(n \div 10) \o <<DigitChars[(n % 10) + 1]>>

--------------------------------------------------------------------------
(* Base64 and UTF-8, as the runtime library does them *)

B64Chars == Str("ABCDEFGHIJKLMNOPQRSTUVWXYZabcdefghijklmnopqrstuvwxyz0123456789+/")

\* the standard alphabet: the only one atob accepts
IsB64Char(c) == \E i \in 1..64 : B64Chars[i] = c

\* Node's table: the standard and the URL-safe alphabet; 64 stands for an illegal character
unbase64(c) ==
    IF IsB64Char(c) THEN (CHOOSE i \in 1..64 : B64Chars[i] = c) - 1
    ELSE IF c = "-" THEN 62
    ELSE IF c = "_" THEN 63
    ELSE 64

\* groups of four sextets give three bytes; two left over give one byte, three give
\* two, a single one gives none
RECURSIVE SextetsToBytes(_)
SextetsToBytes(v) ==
    IF Len(v) < 2 THEN <<>>
    ELSE LET b1 == (v[1] * 4) + (v[2] \div 16)
         IN  IF Len(v) = 2 THEN <<b1>>
             ELSE LET b2 == ((v[2] % 16) * 16) + (v[3] \div 4)
                  IN  IF Len(v) = 3 THEN <<b1, b2>>
                      ELSE <<b1, b2, ((v[3] % 4) * 64) + v[4]>>
                               \o SextetsToBytes(SubSeq(v, 5, Len(v)))

\* Buffer.from(s, base64): never throws.  Characters outside the alphabet are
\* skipped and decoding stops at the first = sign.
BufferFromBase64(s) ==
    LET eq   == IndexOf(s, <<"=">>)
        body == IF eq = 0 THEN s ELSE SubSeq(s, 1, eq - 1)
        legal == SelectSeq(body, LAMBDA c : unbase64(c) < 64)
    IN  SextetsToBytes([i \in 1..Len(legal) |-> unbase64(legal[i])])

IsCont(b) == b >= 128 /\ b <= 191

\* buf.toString(utf8): WHATWG UTF-8 decoding; an ill-formed sequence gives
\* U+FFFD for its maximal well-formed prefix
RECURSIVE Utf8Decode(_)
Utf8Decode(b) ==
    IF b = <<>> THEN <<>>
    ELSE
      LET b1 == b[1]
          n  == Len(b)
          need == IF b1 < 128 THEN 0
                  ELSE IF b1 >= 194 /\ b1 <= 223 THEN 1
                  ELSE IF b1 >= 224 /\ b1 <= 239 THEN 2
                  ELSE IF b1 >= 240 /\ b1 <= 244 THEN 3
                  ELSE -1
          lo2 == IF b1 = 224 THEN 160 ELSE IF b1 = 240 THEN 144 ELSE 128
          hi2 == IF b1 = 237 THEN 159 ELSE IF b1 = 244 THEN 143 ELSE 191
          ok2 == n >= 2 /\ b[2] >= lo2 /\ b[2] <= hi2
          ok3 == ok2 /\ n >= 3 /\ IsCont(b[3])
          ok4 == ok3 /\ n >= 4 /\ IsCont(b[4])
          Rest(k) == Utf8Decode(SubSeq(b, k + 1, n))
          Bad(k) == <<CodePointChar(65533)>> \o Rest(k)
      IN  IF need = 0 THEN <<CodePointChar(b1)>> \o Rest(1)
          ELSE IF need = -1 THEN Bad(1)
          ELSE IF ~ok2 THEN Bad(1)
          ELSE IF need = 1
               THEN <<CodePointChar(((b1 % 32) * 64) + (b[2] % 64))>> \o Rest(2)
          ELSE IF ~ok3 THEN Bad(2)
          ELSE IF need = 2
               THEN <<CodePointChar(((b1 % 16) * 4096) + ((b[2] % 64) * 64) + (b[3] % 64))>>
                        \o Rest(3)
          ELSE IF ~ok4 THEN Bad(3)
          ELSE <<CodePointChar(((b1 % 8) * 262144) + ((b[2] % 64) * 4096)
                                 + ((b[3] % 64) * 64) + (b[4] % 64))>> \o Rest(4)

\* Buffer.from(s, base64).toString(utf8)
BufferDecode(s) == Utf8Decode(BufferFromBase64(s))

AsciiWhitespace == {"\t", "\n", "\f", "\r", " "}

\* what atob does before decoding: ASCII whitespace removed, then, when the length
\* is a multiple of four, one or two = signs removed from the end
AtobData(s) ==
    LET t == SelectSeq(s, LAMBDA c : c \notin AsciiWhitespace)
        n == Len(t)
    IN  IF n > 0 /\ n % 4 = 0 /\ t[n] = "="
        THEN IF t[n - 1] = "=" THEN SubSeq(t, 1, n - 2) ELSE SubSeq(t, 1, n - 1)
        ELSE t

\* atob throws InvalidCharacterError
AtobThrows(s) ==
    LET d == AtobData(s)
    IN  Len(d) % 4 = 1 \/ \E i \in 1..Len(d) : ~IsB64Char(d[i])

\* atob's result: a binary string, one character per byte (no UTF-8 decoding)
Atob(s) ==
    LET d == AtobData(s)
        bytes == SextetsToBytes([i \in 1..Len(d) |-> unbase64(d[i])])
    IN  [i \in 1..Len(bytes) |-> CodePointChar(bytes[i])]

--------------------------------------------------------------------------
(* Numbers: parseInt(s, 10) and Number(s) *)

AllDigits(s) == \A i \in 1..Len(s) : IsDigit(s[i])

RECURSIVE DigitsValue(_)
DigitsValue(s) ==
    IF s = <<>> THEN 0
    ELSE (DigitsValue(SubSeq(s, 1, Len(s) - 1)) * 10) + DigitValue(s[Len(s)])

\* the longest prefix of s made of decimal digits
RECURSIVE DigitPrefix(_)
DigitPrefix(s) ==
    IF s # <<>> /\ IsDigit(Head(s)) THEN <<Head(s)>> \o DigitPrefix(Tail(s)) ELSE <<>>

HasSign(s) == s # <<>> /\ Head(s) \in {"+", "-"}

SignOf(s) == IF s # <<>> /\ Head(s) = "-" THEN -1 ELSE 1

Unsigned(s) == IF HasSign(s) THEN Tail(s) ELSE s

\* parseInt(s, 10): leading white space skipped, an optional sign, then the longest
\* prefix of decimal digits; NaN when that prefix is empty.  Anything after the
\* digits is ignored.
parseInt(s) ==
    LET t == TrimStart(s)
        d == DigitPrefix(Unsigned(t))
    IN  IF d = <<>> THEN [isNaN |-> TRUE, value |-> 0]
        ELSE [isNaN |-> FALSE, value |-> SignOf(t) * DigitsValue(d)]

\* A JavaScript number: kind is fin, inf or nan; a finite value is m * 10^e with m
\* not a multiple of ten (zero is m = 0, e = 0).  JsNull is the value null.
NaN == [kind |-> "nan", m |-> 0, e |-> 0]

Infinite == [kind |-> "inf", m |-> 0, e |-> 0]

JsNull == [kind |-> "null", m |-> 0, e |-> 0]

RECURSIVE Normal(_, _)
Normal(m, e) ==
    IF m = 0 THEN [kind |-> "fin", m |-> 0, e |-> 0]
    ELSE IF m % 10 = 0 THEN Normal(m \div 10, e + 1)
    ELSE [kind |-> "fin", m |-> m, e |-> e]

Abs(n) == IF n < 0 THEN -n ELSE n

\* the range of a double, to the decade: 10^309 and more is Infinity, less than
\* 10^-324 is zero
Finite(m, e) ==
    LET mag == Len(NatToStr(Abs(m))) + e
    IN  IF m # 0 /\ mag > 309 THEN Infinite
        ELSE IF m # 0 /\ mag < -323 THEN Normal(0, 0)
        ELSE Normal(m, e)

FirstOf(s, cs) ==
    LET hits == {i \in 1..Len(s) : s[i] \in cs}
    IN  IF hits = {} THEN 0 ELSE CHOOSE i \in hits : \A j \in hits : i <= j

\* StrUnsignedDecimalLiteral: Infinity, or digits with at most one point and at least
\* one digit, then an optional exponent part
UnsignedDecimal(u, sign) ==
    LET ePos  == FirstOf(u, {"e", "E"})
        mant  == IF ePos = 0 THEN u ELSE SubSeq(u, 1, ePos - 1)
        expo  == IF ePos = 0 THEN <<>> ELSE SubSeq(u, ePos + 1, Len(u))
        expOk == ePos = 0 \/ (Unsigned(expo) # <<>> /\ AllDigits(Unsigned(expo)))
        expV  == IF ePos = 0 \/ ~expOk THEN 0 ELSE SignOf(expo) * DigitsValue(Unsigned(expo))
        dot   == FirstOf(mant, {"."})
        ip    == IF dot = 0 THEN mant ELSE SubSeq(mant, 1, dot - 1)
        fp    == IF dot = 0 THEN <<>> ELSE SubSeq(mant, dot + 1, Len(mant))
    IN  IF u = Str("Infinity") THEN Infinite
        ELSE IF expOk /\ AllDigits(ip) /\ AllDigits(fp) /\ Len(ip) + Len(fp) > 0
        THEN Finite(sign * DigitsValue(ip \o fp), expV - Len(fp))
        ELSE NaN

RadixDigits(r) ==
    IF r = 2 THEN Str("01")
    ELSE IF r = 8 THEN Str("01234567")
    ELSE Str("0123456789abcdef")

Lower(c) ==
    IF c \in {"A", "B", "C", "D", "E", "F"}
    THEN Str("abcdef")[CHOOSE i \in 1..6 : Str("ABCDEF")[i] = c]
    ELSE c

RadixDigitValue(c, r) ==
    LET ds == RadixDigits(r)
        hits == {i \in 1..Len(ds) : ds[i] = Lower(c)}
    IN  IF hits = {} THEN -1 ELSE (CHOOSE i \in hits : TRUE) - 1

RECURSIVE RadixValue(_, _)
RadixValue(s, r) ==
    IF s = <<>> THEN 0
    ELSE (RadixValue(SubSeq(s, 1, Len(s) - 1), r) * r) + RadixDigitValue(s[Len(s)], r)

\* NonDecimalIntegerLiteral: 0b, 0o or 0x (either case) and at least one digit
RadixOf(t) ==
    IF Len(t) < 2 \/ t[1] # "0" THEN 0
    ELSE IF t[2] \in {"b", "B"} THEN 2
    ELSE IF t[2] \in {"o", "O"} THEN 8
    ELSE IF t[2] \in {"x", "X"} THEN 16
    ELSE 0

\* Number(s), that is StringToNumber: white space trimmed at both ends, the empty
\* string is 0, and the WHOLE rest must be a numeric literal, else NaN
Number(s) ==
    LET t == Trim(s)
        r == RadixOf(t)
        ds == SubSeq(t, 3, Len(t))
    IN  IF t = <<>> THEN Normal(0, 0)
        ELSE IF r # 0
        THEN IF ds # <<>> /\ \A i \in 1..Len(ds) : RadixDigitValue(ds[i], r) >= 0
             THEN Finite(RadixValue(ds, r), 0)
             ELSE NaN
        ELSE UnsignedDecimal(Unsigned(t), SignOf(t))

\* Number.isFinite
isFinite(n) == n.kind = "fin"

--------------------------------------------------------------------------
(* pages/index.tsx: the hall-of-fame decoder *)

\* b64decodeSafe: Buffer on the server, atob in a browser; the argument itself
\* when the decoder throws (Buffer.from never does)
b64decodeSafe(s, window) ==
    IF window
    THEN IF AtobThrows(s) THEN s ELSE Atob(s)
    ELSE BufferDecode(s)

\* ordinal without the test of n % 100, choosing by the last digit alone
ordinalByLastDigit(n) ==
    IF n % 10 = 1 THEN NatToStr(n) \o Str("st")
    ELSE IF n % 10 = 2 THEN NatToStr(n) \o Str("nd")
    ELSE IF n % 10 = 3 THEN NatToStr(n) \o Str("rd")
    ELSE NatToStr(n) \o Str("th")

\* ordinal(n)
ordinal(n) ==
    LET v == n % 100
    IN  IF v >= 11 /\ v <= 13 THEN NatToStr(n) \o Str("th")
        ELSE IF n % 10 = 1 THEN NatToStr(n) \o Str("st")
        ELSE IF n % 10 = 2 THEN NatToStr(n) \o Str("nd")
        ELSE IF n % 10 = 3 THEN NatToStr(n) \o Str("rd")
        ELSE NatToStr(n) \o Str("th")

\* HofKeep without the trim of the decoded name
HofKeepUntrimmed(name, score) == ~score.isNaN /\ name # <<>>

\* the condition under which a (name, score) pair is pushed to out
HofKeep(name, score) == ~score.isNaN /\ Trim(name) # <<>>

\* HofFirst pairing token 1 the way the later tokens are paired: its score with the
\* name after its slash
HofFirstUniform(parts, window) ==
    LET sp == Split(parts[2], <<"/">>)
        n  == b64decodeSafe(IF Len(sp) >= 2 THEN sp[2] ELSE <<>>, window)
        s  == parseInt(sp[1])
    IN  IF ~s.isNaN /\ Trim(n) # <<>> THEN <<[name |-> n, score |-> s.value]>> ELSE <<>>

\* the header pair: the name of parts[0] with the score before the first slash of
\* parts[1]; nothing else of parts[1] is read
HofFirst(parts, window) ==
    LET firstName  == b64decodeSafe(parts[1], window)
        firstScore == parseInt(Split(parts[2], <<"/">>)[1])
    IN  IF HofKeep(firstName, firstScore)
        THEN <<[name |-> firstName, score |-> firstScore.value]>>
        ELSE <<>>

\* one token of parts.slice(2): score/name, skipped when it holds no slash
HofToken(p, window) ==
    IF ~Includes(p, "/") THEN <<>>
    ELSE LET sp == Split(p, <<"/">>)
             n  == b64decodeSafe(sp[2], window)
             s  == parseInt(sp[1])
         IN  IF HofKeep(n, s) THEN <<[name |-> n, score |-> s.value]>> ELSE <<>>

RECURSIVE HofRest(_, _, _)
HofRest(parts, i, window) ==
    IF i > Len(parts) THEN <<>>
    ELSE HofToken(parts[i], window) \o HofRest(parts, i + 1, window)

\* x inserted into a sequence sorted by score descending, after every element whose
\* score is not smaller
RECURSIVE InsertDesc(_, _)
InsertDesc(sorted, x) ==
    IF sorted = <<>> THEN <<x>>
    ELSE IF Head(sorted).score >= x.score THEN <<Head(sorted)>> \o InsertDesc(Tail(sorted), x)
    ELSE <<x>> \o sorted

\* a sort that is not stable: x goes before the elements of equal score
RECURSIVE InsertDescFirst(_, _)
InsertDescFirst(sorted, x) ==
    IF sorted = <<>> THEN <<x>>
    ELSE IF Head(sorted).score > x.score
         THEN <<Head(sorted)>> \o InsertDescFirst(Tail(sorted), x)
    ELSE <<x>> \o sorted

RECURSIVE SortDescUnstable(_)
SortDescUnstable(out) ==
    IF out = <<>> THEN <<>>
    ELSE InsertDescFirst(SortDescUnstable(SubSeq(out, 1, Len(out) - 1)), out[Len(out)])

\* out.sort((a, b) => b.score - a.score): Array.prototype.sort is stable
RECURSIVE SortDesc(_)
SortDesc(out) ==
    IF out = <<>> THEN <<>>
    ELSE InsertDesc(SortDesc(SubSeq(out, 1, Len(out) - 1)), out[Len(out)])

\* the tie-aware rank loop, from row i on; hasLast is lastScore !== null
RECURSIVE RankFrom(_, _, _, _, _)
RankFrom(out, i, hasLast, lastScore, displayRank) ==
    IF i > Len(out) THEN <<>>
    ELSE LET row   == out[i]
             place == i
             fresh == ~hasLast \/ row.score # lastScore
             rank  == IF fresh THEN place ELSE displayRank
         IN  <<[rank |-> ordinal(rank), player |-> row.name, score |-> row.score]>>
                 \o RankFrom(out, i + 1, TRUE, row.score, rank)

\* dense ranking: the rank grows by one at each new score
RECURSIVE DenseFrom(_, _, _)
DenseFrom(out, i, rank) ==
    IF i > Len(out) THEN <<>>
    ELSE LET row == out[i]
             r   == IF i = 1 \/ row.score # out[i - 1].score THEN rank + 1 ELSE rank
         IN  <<[rank |-> ordinal(r), player |-> row.name, score |-> row.score]>>
                 \o DenseFrom(out, i + 1, r)

DenseRanks(sorted) == DenseFrom(sorted, 1, 0)

TieRanks(sorted) == RankFrom(sorted, 1, FALSE, 0, 0)

\* the pairs pushed to out, before the sort
HofPairs(raw, window) ==
    LET parts == Split(Trim(raw), <<",">>)
    IN  IF Len(parts) < 2 THEN <<>>
        ELSE HofFirst(parts, window) \o HofRest(parts, 3, window)

\* parseHofRaw(raw)
parseHofRaw(raw, window) == TieRanks(SortDesc(HofPairs(raw, window)))

--------------------------------------------------------------------------
(* lib/prase.ts: the level-list decoder *)

\* an optional string: a field of the fields object, undefined when the key is absent
Undefined == [has |-> FALSE, val |-> <<>>]

Some(v) == [has |-> TRUE, val |-> v]

\* o ?? ""
OrEmpty(o) == IF o.has THEN o.val ELSE <<>>

\* Buffer.from(s, base64) throws for no string s, so the catch is never taken
BufferThrows(s) == FALSE

\* safeBase64Decode
safeBase64Decode(s) == IF BufferThrows(s) THEN s ELSE BufferDecode(s)

\* num with a failed parse coerced to zero, as Number(s) || 0 would
numOrZero(o) ==
    IF ~o.has \/ Trim(o.val) = <<>> THEN JsNull
    ELSE LET n == Number(o.val)
         IN  IF isFinite(n) THEN n ELSE Normal(0, 0)

\* num: null for undefined or blank text and for a parse that is not finite
num(o) ==
    IF ~o.has \/ Trim(o.val) = <<>> THEN JsNull
    ELSE LET n == Number(o.val)
         IN  IF isFinite(n) THEN n ELSE JsNull

RecordMarker == Str("\\levelId=")

LevelIdKey == Str("levelId=")

HasMoreKey == Str("hasMoreLevels")

\* fields[k] = v
Assign(fields, k, v) ==
    [x \in DOMAIN fields \cup {k} |-> IF x = k THEN v ELSE fields[x]]

\* fields[key]
Lookup(fields, key) == IF key \in DOMAIN fields THEN Some(fields[key]) ELSE Undefined

NoFields == [x \in {} |-> <<>>]

\* SegmentStep with the flag assigned from every hasMoreLevels field, so that a later
\* hasMoreLevels=0 resets it
SegmentStepAssign(st, segment) ==
    LET sp == Split(segment, <<"=">>)
        k  == sp[1]
        v  == Join(Tail(sp), <<"=">>)
    IN  IF k = <<>> THEN st
        ELSE IF k = HasMoreKey THEN [st EXCEPT !.flag = (v = <<"1">>)]
        ELSE [st EXCEPT !.fields = Assign(st.fields, k, v)]

\* one segment of a block: st holds the fields of the block so far and the
\* document's hasMoreLevels flag
SegmentStep(st, segment) ==
    LET sp == Split(segment, <<"=">>)
        k  == sp[1]
        v  == Join(Tail(sp), <<"=">>)
    IN  IF k = <<>> THEN st
        ELSE IF k = HasMoreKey /\ v = <<"1">> THEN [st EXCEPT !.flag = TRUE]
        ELSE [st EXCEPT !.fields = Assign(st.fields, k, v)]

RECURSIVE ScanSegments(_, _, _)
ScanSegments(segs, i, st) ==
    IF i > Len(segs) THEN st
    ELSE ScanSegments(segs, i + 1, SegmentStep(st, segs[i]))

\* the block of chunk i (1-based; the code's i === 0 is the first chunk)
Block(chunk, i) ==
    IF i = 1 /\ StartsWith(chunk, LevelIdKey) THEN chunk ELSE LevelIdKey \o chunk

\* Entry with the difficulty trimmed and decoded as the id and the author are
EntryDifficultyDecoded(fields) ==
    LET levelIdEncoded     == Trim(OrEmpty(Lookup(fields, Str("levelId"))))
        levelAuthorEncoded == Trim(OrEmpty(Lookup(fields, Str("levelAuthor"))))
    IN  [levelId          |-> safeBase64Decode(levelIdEncoded),
         levelAuthor      |-> safeBase64Decode(levelAuthorEncoded),
         levelRating      |-> num(Lookup(fields, Str("levelRating"))),
         levelDifficulty  |-> safeBase64Decode(Trim(OrEmpty(Lookup(fields, Str("levelDifficulty"))))),
         levelDownloads   |-> num(Lookup(fields, Str("levelDownloads"))),
         levelTopTimesRaw |-> Lookup(fields, Str("levelTopTimes"))]

\* the entry built from the fields of a block
Entry(fields) ==
    LET levelIdEncoded     == Trim(OrEmpty(Lookup(fields, Str("levelId"))))
        levelAuthorEncoded == Trim(OrEmpty(Lookup(fields, Str("levelAuthor"))))
    IN  [levelId          |-> safeBase64Decode(levelIdEncoded),
         levelAuthor      |-> safeBase64Decode(levelAuthorEncoded),
         levelRating      |-> num(Lookup(fields, Str("levelRating"))),
         levelDifficulty  |-> OrEmpty(Lookup(fields, Str("levelDifficulty"))),
         levelDownloads   |-> num(Lookup(fields, Str("levelDownloads"))),
         levelTopTimesRaw |-> Lookup(fields, Str("levelTopTimes"))]

\* if (entry.levelId) levels.push(entry)
Retained(entry) == entry.levelId # <<>>

\* ChunkStep with the entry put at the front of levels (unshift for push)
ChunkStepUnshift(acc, chunk, i) ==
    IF chunk = <<>> THEN acc
    ELSE LET st    == ScanSegments(Split(Block(chunk, i), <<"&">>), 1,
                                   [fields |-> NoFields, flag |-> acc.hasMoreLevels])
             entry == Entry(st.fields)
         IN  [levels        |-> IF Retained(entry) THEN <<entry>> \o acc.levels
                                ELSE acc.levels,
              hasMoreLevels |-> st.flag]

\* one turn of the loop over parts; acc holds levels and hasMoreLevels
ChunkStep(acc, chunk, i) ==
    IF chunk = <<>> THEN acc
    ELSE LET st    == ScanSegments(Split(Block(chunk, i), <<"&">>), 1,
                                   [fields |-> NoFields, flag |-> acc.hasMoreLevels])
             entry == Entry(st.fields)
         IN  [levels        |-> IF Retained(entry) THEN Append(acc.levels, entry)
                                ELSE acc.levels,
              hasMoreLevels |-> st.flag]

\* the turns of the loop from chunk i on; next is the value of levels and
\* hasMoreLevels after turn i, computed before turn i + 1 starts
RECURSIVE ChunksFrom(_, _, _)
ChunksFrom(parts, i, acc) ==
    IF i > Len(parts) THEN acc
    ELSE CHOOSE out \in {ChunksFrom(parts, i + 1, next) :
                             next \in {ChunkStep(acc, parts[i], i)}} : TRUE

\* parseLevelList(raw)
parseLevelList(raw) ==
    ChunksFrom(Split(raw, RecordMarker), 1, [levels |-> <<>>, hasMoreLevels |-> FALSE])

--------------------------------------------------------------------------
(* State *)

VARIABLES
    hasWindow,  \* typeof window !== 'undefined': the code runs in a browser
    hofIn,      \* the raw text handed to parseHofRaw
    hofOut,     \* the rows it returned
    hofPc,      \* "idle" before the call, "done" after it ("off": not in use)
    lvlIn,      \* the raw text handed to parseLevelList
    lvlOut,     \* the LevelListResult it returned
    lvlPc,      \* "idle" before the call, "done" after it ("off": not in use)
    scIn,       \* the argument handed to a scalar helper (an optional string)
    scOut,      \* what the helper returned: a number or null for num, a string else
    scPc,       \* "idle" before the call, then the helper that ran ("off": not in use)
    mounted,    \* the page component on screen: "IndexPage", "Home" ("off": none)
    apiBase,    \* NEXT_PUBLIC_API_BASE is set (postForm throws when it is not)
    uniqueId,   \* IndexPage state
    token,
    authBusy,
    authError,
    hofRows,
    hofBusy,
    hofError,
    tab,
    levelsBusy,
    levelsError,
    auth,       \* Home state; auth is NoAuth (null) or [uniqueId, token]
    loading,
    levels,
    hasMore,
    page,
    reqs,       \* the requests in flight and those on record, in the order issued
    decoded     \* the requests whose response body was handed to a decoder

hofVars == <<hofIn, hofOut, hofPc>>

lvlVars == <<lvlIn, lvlOut, lvlPc>>

scVars == <<scIn, scOut, scPc>>

ipVars == <<uniqueId, token, authBusy, authError, hofRows, hofBusy, hofError, tab, levelsBusy,
           levelsError>>

homeVars == <<auth, loading, levels, hasMore, page>>

uiVars == <<mounted, apiBase, ipVars, homeVars, reqs, decoded>>

vars == <<hasWindow, hofVars, lvlVars, scVars, uiVars>>

--------------------------------------------------------------------------
(* The hall-of-fame decoder on bounded inputs *)

\* the number of tokens after the two header tokens
MaxHofTail == 3

\* token 0: the name A, a blank name, and a text that is not base64
HofNames == {Str("QQ=="), Str("IA=="), Str("!")}

\* token 1: score/tail (the tail decodes to Z, no other token's name), a score that
\* is no number, a score without a slash
HofHeads == {Str("9/Wg=="), Str("x/Wg=="), Str("8")}

\* tokens 2, 3, ...: B and C tied at 8, B at 9, a blank name, a score that is no
\* number, a token without a slash, a name that is not base64
HofTokens ==
    {Str("8/Qg=="), Str("8/Qw=="), Str("9/Qg=="), Str("7/IA=="), Str("x/Qg=="),
     Str("7"), Str("7/!")}

HofInputs ==
    {<<>>} \cup HofNames
        \cup {Join(<<a, h>> \o tl, <<",">>) :
                a \in HofNames, h \in HofHeads,
                tl \in UNION {[1..n -> HofTokens] : n \in 0..MaxHofTail}}

HofInit ==
    /\ hofIn \in HofInputs
    /\ hofOut = <<>>
    /\ hofPc = "idle"

HofIdle ==
    /\ hofIn = <<>>
    /\ hofOut = <<>>
    /\ hofPc = "off"

\* one call of parseHofRaw
DecodeHof ==
    /\ hofPc = "idle"
    /\ hofOut' = parseHofRaw(hofIn, hasWindow)
    /\ hofPc' = "done"
    /\ UNCHANGED <<hasWindow, hofIn, lvlVars, scVars, uiVars>>

NoLevels == [levels |-> <<>>, hasMoreLevels |-> FALSE]

LvlIdle ==
    /\ lvlIn = <<>>
    /\ lvlOut = NoLevels
    /\ lvlPc = "off"

ScIdle ==
    /\ scIn = Undefined
    /\ scOut = <<>>
    /\ scPc = "off"

NoAuth == [uniqueId |-> <<>>, token |-> <<>>]

\* a page number: an integer or NaN, the results parseInt(s, 10) has
PageOf(n) == [isNaN |-> FALSE, value |-> n]

\* page + k
PagePlus(pg, k) == IF pg.isNaN THEN pg ELSE PageOf(pg.value + k)

\* page <= n
PageLte(pg, n) == ~pg.isNaN /\ pg.value <= n

\* Math.max(1, pg)
MathMax1(pg) == IF pg.isNaN \/ pg.value > 1 THEN pg ELSE PageOf(1)

\* the state both pages are constructed with (their useState initial values)
UiFresh ==
    /\ uniqueId = <<>>
    /\ token = <<>>
    /\ authBusy = FALSE
    /\ authError = ""
    /\ hofRows = <<>>
    /\ hofBusy = FALSE
    /\ hofError = ""
    /\ tab = "hof"
    /\ levelsBusy = FALSE
    /\ levelsError = ""
    /\ auth = NoAuth
    /\ loading = FALSE
    /\ levels = <<>>
    /\ hasMore = FALSE
    /\ page = PageOf(1)
    /\ reqs = <<>>
    /\ decoded = {}

UiIdle ==
    /\ mounted = "off"
    /\ apiBase = TRUE
    /\ UiFresh

InitHof ==
    /\ hasWindow \in BOOLEAN
    /\ HofInit
    /\ LvlIdle
    /\ ScIdle
    /\ UiIdle

NextHof == DecodeHof

SpecHof == InitHof /\ [][NextHof]_vars

--------------------------------------------------------------------------
(* The level-list decoder on bounded inputs *)

\* the number of record markers in the raw text
MaxRecords == 2

\* what precedes the first marker: nothing, a fragment, a fragment that begins with
\* the key literal, a fragment that carries the pagination field
LevelLeads ==
    {<<>>, Str("QQ=="), Str("levelId=QQ==&levelRating=5"), Str("x=y&hasMoreLevels=1")}

\* what follows a marker: a full record (ids B, author C, an empty difficulty, a
\* value holding an equals sign), an id that decodes to a blank, an empty chunk, the
\* pagination field set and not set, a blank id, an id that is not base64, a
\* difficulty that is base64 text between blanks
LevelBodies ==
    {Str("Qg==&levelAuthor=Qw==&levelRating=4.5&levelDifficulty=&levelDownloads=12&levelTopTimes=a=b"),
     Str("IA=="),
     <<>>,
     Str("Qw==&hasMoreLevels=1"),
     Str("RA==&hasMoreLevels=0&levelRating=abc&levelDifficulty=SS"),
     Str(" &levelRating=7"),
     Str("!&levelDownloads= "),
     Str("RQ==&levelDifficulty= QQ== ")}

RECURSIVE Concat(_)
Concat(ss) == IF ss = <<>> THEN <<>> ELSE Head(ss) \o Concat(Tail(ss))

LevelInputs ==
    {lead \o Concat([j \in 1..Len(bs) |-> RecordMarker \o bs[j]]) :
        lead \in LevelLeads,
        bs \in UNION {[1..n -> LevelBodies] : n \in 0..MaxRecords}}

LvlInit ==
    /\ lvlIn \in LevelInputs
    /\ lvlOut = NoLevels
    /\ lvlPc = "idle"

\* one call of parseLevelList
DecodeLevels ==
    /\ lvlPc = "idle"
    /\ lvlOut' = parseLevelList(lvlIn)
    /\ lvlPc' = "done"
    /\ UNCHANGED <<hasWindow, lvlIn, hofVars, scVars, uiVars>>

InitLevels ==
    /\ hasWindow = TRUE
    /\ HofIdle
    /\ LvlInit
    /\ ScIdle
    /\ UiIdle

NextLevels == DecodeLevels

SpecLevels == InitLevels /\ [][NextLevels]_vars

--------------------------------------------------------------------------
(* Claims about parseLevelList *)

LvlParts == Split(lvlIn, RecordMarker)

KeyText(seg) ==
    LET i == IndexOf(seg, <<"=">>) IN IF i = 0 THEN seg ELSE SubSeq(seg, 1, i - 1)

ValueText(seg) ==
    LET i == IndexOf(seg, <<"=">>) IN IF i = 0 THEN <<>> ELSE SubSeq(seg, i + 1, Len(seg))

\* chunk i holds the field hasMoreLevels=1 (the chunk read as the code reads it:
\* with the key literal before it, so that its first field is the levelId)
ChunkSetsFlag(parts, i) ==
    /\ parts[i] # <<>>
    /\ \E seg \in {Split(Block(parts[i], i), <<"&">>)[j] :
                       j \in 1..Len(Split(Block(parts[i], i), <<"&">>))} :
           KeyText(seg) = HasMoreKey /\ ValueText(seg) = <<"1">>

\* C7: hasMoreLevels is true exactly when some field of some chunk is
\* hasMoreLevels=1, whatever the later chunks hold
C7_HasMoreFlag ==
    lvlPc = "done" =>
        (lvlOut.hasMoreLevels <=> \E i \in 1..Len(LvlParts) : ChunkSetsFlag(LvlParts, i))

\* C7 witness: a chunk sets the flag, a later chunk carries hasMoreLevels with
\* another value, and the flag is true
C7_Witness ==
    /\ lvlPc = "done"
    /\ lvlOut.hasMoreLevels
    /\ \E i \in 1..Len(LvlParts) : \E j \in (i + 1)..Len(LvlParts) :
           /\ ChunkSetsFlag(LvlParts, i)
           /\ ~ChunkSetsFlag(LvlParts, j)
           /\ \E seg \in {Split(LvlParts[j], <<"&">>)[k] :
                              k \in 1..Len(Split(LvlParts[j], <<"&">>))} :
                  KeyText(seg) = HasMoreKey

\* the raw value of the last field of chunk i whose key is key (the chunk read as
\* the code reads it), undefined when the chunk has no such field
FieldText(parts, i, key) ==
    LET segs == Split(Block(parts[i], i), <<"&">>)
        hits == {j \in 1..Len(segs) : KeyText(segs[j]) = key}
        last == CHOOSE j \in hits : \A k \in hits : k <= j
    IN  IF hits = {} THEN Undefined ELSE Some(ValueText(segs[last]))

\* the decoded id of chunk i
ChunkId(parts, i) == BufferDecode(Trim(OrEmpty(FieldText(parts, i, Str("levelId")))))

\* the chunks that are records with an id, in the order of the raw text
RetainedChunks(parts) ==
    LET S == {i \in 1..Len(parts) : parts[i] # <<>> /\ ChunkId(parts, i) # <<>>}
    IN  CHOOSE f \in [1..Cardinality(S) -> S] :
            \A a \in 1..Cardinality(S) : \A b \in 1..Cardinality(S) : a < b => f[a] < f[b]

\* C11: the levels are the chunks with an id, one entry each, in the order the
\* chunks have in the raw text
C11_InputOrderKept ==
    lvlPc = "done" =>
        LET kept == RetainedChunks(LvlParts)
        IN  /\ Len(lvlOut.levels) = Len(kept)
            /\ \A p \in 1..Len(kept) :
                   /\ lvlOut.levels[p].levelId = ChunkId(LvlParts, kept[p])
                   /\ lvlOut.levels[p].levelTopTimesRaw =
                          FieldText(LvlParts, kept[p], Str("levelTopTimes"))

\* C11 witness: three entries with three different ids, the ids of three chunks
\* of the raw text in their order
C11_Witness ==
    /\ lvlPc = "done"
    /\ Len(lvlOut.levels) = 3
    /\ Len(RetainedChunks(LvlParts)) = 3
    /\ lvlOut.levels[1].levelId # lvlOut.levels[2].levelId
    /\ lvlOut.levels[2].levelId # lvlOut.levels[3].levelId
    /\ lvlOut.levels[1].levelId # lvlOut.levels[3].levelId

\* C12: the levelDifficulty of an entry is the raw text of its chunk's
\* levelDifficulty field, the empty string included (and when the field is absent)
C12_DifficultyVerbatim ==
    lvlPc = "done" =>
        LET kept == RetainedChunks(LvlParts)
        IN  /\ Len(lvlOut.levels) = Len(kept)
            /\ \A p \in 1..Len(kept) :
                   lvlOut.levels[p].levelDifficulty =
                       OrEmpty(FieldText(LvlParts, kept[p], Str("levelDifficulty")))

\* C12 witness: one entry came from a chunk whose levelDifficulty field is empty
\* and carries the empty string, another carries a text with blanks around it
C12_Witness ==
    /\ lvlPc = "done"
    /\ Len(lvlOut.levels) = Len(RetainedChunks(LvlParts))
    /\ \E p \in 1..Len(lvlOut.levels) : \E q \in 1..Len(lvlOut.levels) :
           /\ FieldText(LvlParts, RetainedChunks(LvlParts)[p], Str("levelDifficulty")) = Some(<<>>)
           /\ lvlOut.levels[p].levelDifficulty = <<>>
           /\ lvlOut.levels[q].levelDifficulty = Str(" QQ== ")

--------------------------------------------------------------------------
(* The scalar helpers on bounded inputs *)

\* the longest numeric text and the longest base64 text drawn from the alphabets
MaxNumLen == 4

MaxB64Len == 4

NumAlphabet == {"1", "0", ".", "-", " ", "e"}

B64Alphabet == {"Q", "A", "=", "!", " "}

Strings(alphabet, maxLen) == UNION {[1..n -> alphabet] : n \in 0..maxLen}

\* the examples of the specification, and literals the alphabets do not reach
NumExamples == {Str("abc"), Str("12.5"), Str("   "), Str("Infinity"), Str("0x1f"), Str("1e999")}

ScInputs ==
    {Undefined}
        \cup {Some(s) : s \in Strings(NumAlphabet, MaxNumLen) \cup NumExamples}
        \cup {Some(s) : s \in Strings(B64Alphabet, MaxB64Len)}

ScInit ==
    /\ scIn \in ScInputs
    /\ scOut = <<>>
    /\ scPc = "idle"

\* num(fields[key]), as parseLevelList calls it
ApplyNum ==
    /\ scPc = "idle"
    /\ scOut' = num(scIn)
    /\ scPc' = "num"
    /\ UNCHANGED <<hasWindow, scIn, hofVars, lvlVars, uiVars>>

\* safeBase64Decode(s)
ApplySafeBase64Decode ==
    /\ scPc = "idle"
    /\ scIn.has
    /\ scOut' = safeBase64Decode(scIn.val)
    /\ scPc' = "safeBase64Decode"
    /\ UNCHANGED <<hasWindow, scIn, hofVars, lvlVars, uiVars>>

\* b64decodeSafe(s)
ApplyB64decodeSafe ==
    /\ scPc = "idle"
    /\ scIn.has
    /\ scOut' = b64decodeSafe(scIn.val, hasWindow)
    /\ scPc' = "b64decodeSafe"
    /\ UNCHANGED <<hasWindow, scIn, hofVars, lvlVars, uiVars>>

InitScalar ==
    /\ hasWindow \in BOOLEAN
    /\ HofIdle
    /\ LvlIdle
    /\ ScInit
    /\ UiIdle

NextScalar ==
    \/ ApplyNum
    \/ ApplySafeBase64Decode
    \/ ApplyB64decodeSafe

SpecScalar == InitScalar /\ [][NextScalar]_vars

--------------------------------------------------------------------------
(* ordinal on the ranks up to a bound *)

\* the highest rank rendered
MaxRank == 125

\* one call of ordinal, as parseHofRaw calls it with displayRank
ApplyOrdinal ==
    /\ scPc = "idle"
    /\ scOut' = ordinal(scIn)
    /\ scPc' = "ordinal"
    /\ UNCHANGED <<hasWindow, scIn, hofVars, lvlVars, uiVars>>

InitOrdinal ==
    /\ hasWindow = TRUE
    /\ HofIdle
    /\ LvlIdle
    /\ scIn \in 1..MaxRank
    /\ scOut = <<>>
    /\ scPc = "idle"
    /\ UiIdle

NextOrdinal == ApplyOrdinal

SpecOrdinal == InitOrdinal /\ [][NextOrdinal]_vars

\* the English suffix of n
Suffix(n) ==
    IF n % 100 \in {11, 12, 13} THEN Str("th")
    ELSE CASE n % 10 = 1 -> Str("st")
           [] n % 10 = 2 -> Str("nd")
           [] n % 10 = 3 -> Str("rd")
           [] OTHER      -> Str("th")

\* C13: ordinal(n) is the decimal text of n followed by th when n mod 100 is 11,
\* 12 or 13, and otherwise by st, nd, rd for a last digit 1, 2, 3 and th for any
\* other last digit
C13_OrdinalSuffix ==
    scPc = "ordinal" =>
        LET k      == Len(scOut) - 2
            digits == SubSeq(scOut, 1, k)
        IN  /\ k >= 1
            /\ AllDigits(digits)
            /\ digits[1] # "0"
            /\ DigitsValue(digits) = scIn
            /\ SubSeq(scOut, k + 1, k + 2) = Suffix(scIn)

\* C13 witness: the rank 112, whose last digit is 2 and whose ordinal ends in th
C13_Witness ==
    /\ scPc = "ordinal"
    /\ scIn = 112
    /\ scOut = Str("112th")

--------------------------------------------------------------------------
(* The fetch handlers of the two pages: IndexPage (pages/index.tsx) and Home *)

\* the number of requests on record at once, of Home and of IndexPage
MaxRequests == 3

MaxCalls == 2

\* a request just issued by handler fn: pc is the await its handler is suspended
\* at (fetch: the response; text: the body; done: the handler returned), status is
\* what the response turned out to be, okSeen is set once the code has evaluated
\* res.ok as true, raised once the handler's catch block ran, result is the level
\* list the handler put on screen
Req(fn, pg) ==
    [fn |-> fn, pc |-> "fetch", status |-> "pending", okSeen |-> FALSE,
     raised |-> FALSE, page |-> pg, result |-> NoLevels]

\* the page of a request that carries none
NoPage == PageOf(0)

Outcomes == {"networkError", "ok", "notOk"}

\* bodies of the /hof endpoint, of /requestLevelList and of /authenticate, and
\* the JSON replies of /authenticate and /levels/list
HofBodies == {Str("QQ==,9/x,8/Qg=="), Str("Upstream error")}

ListBodies == {Str("\\levelId=Qg==&hasMoreLevels=1"), Str("\\levelId=Qw==")}

AuthBodies == {Str("uniqueId=u1&token=t1"), Str("error=denied")}

AuthReplies == {[uniqueId |-> Str("u1"), token |-> Str("t1")], [uniqueId |-> <<>>, token |-> <<>>]}

LevelReplies ==
    {[levels |-> <<Str("B")>>, hasMoreLevels |-> TRUE], [levels |-> <<Str("C")>>, hasMoreLevels |-> FALSE]}

\* the handlers whose requests stay on record once they returned: those that put
\* a response on screen
Recorded == {"fetchHof", "fetchList", "fetchLevels"}

\* e.message of the error a handler caught: one token for every text
Message == "e.message"

Failed(r) == [reqs EXCEPT ![r].pc = "done", ![r].raised = TRUE]

\* the record without request r, for a handler that returned and is not Recorded
Drop(r) == SubSeq(reqs, 1, r - 1) \o SubSeq(reqs, r + 1, Len(reqs))

\* decoded once request r left the record
Shift(r) == {IF q > r THEN q - 1 ELSE q : q \in decoded \ {r}}

Awaiting(r, fn, pc) == r \in 1..Len(reqs) /\ reqs[r].fn = fn /\ reqs[r].pc = pc

\* the variables no handler writes
fixedVars == <<hasWindow, hofVars, lvlVars, scVars, mounted, apiBase>>

\* ---- IndexPage

\* fetchLevels with uniqueId u, token k and page pg in its closure, to its first
\* await; rs is the record of requests at the call
fetchLevels(u, k, pg, rs) ==
    IF u = <<>> \/ k = <<>>
    THEN /\ levelsError' = "Please authenticate first."
         /\ reqs' = rs
         /\ UNCHANGED levelsBusy
    ELSE /\ levelsBusy' = TRUE
         /\ levelsError' = ""
         /\ reqs' = Append(rs, Req("fetchLevels", pg))

\* the effect that refetches the levels: it runs after a render in which one of its
\* dependencies changed, with the state of that render
useEffect(changed, tb, u, k, pg, rs) ==
    IF changed /\ tb = "levels" /\ u # <<>> /\ k # <<>>
    THEN fetchLevels(u, k, pg, rs)
    ELSE /\ reqs' = rs
         /\ UNCHANGED <<levelsBusy, levelsError>>

\* the Unique ID and Token inputs
TypeUniqueId ==
    /\ mounted = "IndexPage"
    /\ \E v \in {<<>>, Str("u1")} :
           /\ uniqueId' = v
           /\ useEffect(v # uniqueId, tab, v, token, page, reqs)
    /\ Len(reqs') <= MaxCalls
    /\ UNCHANGED <<fixedVars, token, authBusy, authError, hofRows, hofBusy, hofError, tab,
                   homeVars, decoded>>

TypeToken ==
    /\ mounted = "IndexPage"
    /\ \E v \in {<<>>, Str("t1")} :
           /\ token' = v
           /\ useEffect(v # token, tab, uniqueId, v, page, reqs)
    /\ Len(reqs') <= MaxCalls
    /\ UNCHANGED <<fixedVars, uniqueId, authBusy, authError, hofRows, hofBusy, hofError, tab,
                   homeVars, decoded>>

\* the tab buttons
setTab ==
    /\ mounted = "IndexPage"
    /\ \E k \in {"hof", "levels"} :
           /\ tab' = k
           /\ useEffect(k # tab, k, uniqueId, token, page, reqs)
    /\ Len(reqs') <= MaxCalls
    /\ UNCHANGED <<fixedVars, uniqueId, token, authBusy, authError, hofRows, hofBusy, hofError,
                   homeVars, decoded>>

\* authenticate, to its first await (the button is disabled while authBusy)
authenticate ==
    /\ mounted = "IndexPage"
    /\ ~authBusy
    /\ Len(reqs) < MaxCalls
    /\ authBusy' = TRUE
    /\ authError' = ""
    /\ reqs' = Append(reqs, Req("authenticate", NoPage))
    /\ UNCHANGED <<fixedVars, uniqueId, token, hofRows, hofBusy, hofError, tab, levelsBusy,
                   levelsError, homeVars, decoded>>

\* authenticate, from the settling of fetch to the next await or the end
authenticateSettled(r) ==
    /\ Awaiting(r, "authenticate", "fetch")
    /\ \E o \in Outcomes :
           IF o = "ok"
           THEN /\ reqs' = [reqs EXCEPT ![r].pc = "text", ![r].status = o, ![r].okSeen = TRUE]
                /\ UNCHANGED <<authBusy, authError, decoded>>
           ELSE /\ reqs' = Drop(r)
                /\ decoded' = Shift(r)
                /\ authError' = Message
                /\ authBusy' = FALSE
    /\ UNCHANGED <<fixedVars, uniqueId, token, hofRows, hofBusy, hofError, tab, levelsBusy,
                   levelsError, homeVars>>

\* authenticate, from the settling of res.json() to the end, and the effect of
\* the render that follows
authenticateJson(r) ==
    /\ Awaiting(r, "authenticate", "text")
    /\ \/ \E data \in AuthReplies :
              /\ uniqueId' = data.uniqueId
              /\ token' = data.token
              /\ useEffect(data.uniqueId # uniqueId \/ data.token # token, tab,
                           data.uniqueId, data.token, page, Drop(r))
              /\ UNCHANGED authError
       \/ /\ reqs' = Drop(r)
          /\ authError' = Message
          /\ UNCHANGED <<uniqueId, token, levelsBusy, levelsError>>
    /\ decoded' = Shift(r)
    /\ authBusy' = FALSE
    /\ UNCHANGED <<fixedVars, hofRows, hofBusy, hofError, tab, homeVars>>

\* if (!res.ok) throw, in fetchHof
fetchHofThrows(status) == status # "ok"

\* fetchHof, to its first await
fetchHof ==
    /\ mounted = "IndexPage"
    /\ IF uniqueId = <<>> \/ token = <<>>
       THEN /\ hofError' = "Please authenticate first."
            /\ UNCHANGED <<hofBusy, reqs>>
       ELSE /\ hofBusy' = TRUE
            /\ hofError' = ""
            /\ reqs' = Append(reqs, Req("fetchHof", NoPage))
    /\ Len(reqs') <= MaxCalls
    /\ UNCHANGED <<fixedVars, uniqueId, token, authBusy, authError, hofRows, tab, levelsBusy,
                   levelsError, homeVars, decoded>>

\* the Fetch Hall of Fame button (disabled without uniqueId and token, and while
\* hofBusy)
onClickFetchHof ==
    /\ tab = "hof"
    /\ ~(uniqueId = <<>> \/ token = <<>> \/ hofBusy)
    /\ fetchHof

\* fetchHof, from the settling of fetch to the next await or the end
fetchHofSettled(r) ==
    /\ Awaiting(r, "fetchHof", "fetch")
    /\ \E o \in Outcomes :
           IF o = "networkError" \/ fetchHofThrows(o)
           THEN /\ reqs' = [Failed(r) EXCEPT ![r].status = o]
                /\ hofError' = Message
                /\ hofBusy' = FALSE
           ELSE /\ reqs' = [reqs EXCEPT ![r].pc = "text", ![r].status = o,
                                        ![r].okSeen = (o = "ok")]
                /\ UNCHANGED <<hofBusy, hofError>>
    /\ UNCHANGED <<fixedVars, uniqueId, token, authBusy, authError, hofRows, tab, levelsBusy,
                   levelsError, homeVars, decoded>>

\* fetchHofText with setHofBusy(false) at the end of the try block, not in finally
fetchHofTextNoFinally(r) ==
    /\ Awaiting(r, "fetchHof", "text")
    /\ \/ \E body \in HofBodies :
              /\ hofRows' = parseHofRaw(body, hasWindow)
              /\ decoded' = decoded \cup {r}
              /\ reqs' = [reqs EXCEPT ![r].pc = "done"]
              /\ hofBusy' = FALSE
              /\ UNCHANGED hofError
       \/ /\ reqs' = Failed(r)
          /\ hofError' = Message
          /\ UNCHANGED <<hofRows, decoded, hofBusy>>
    /\ UNCHANGED <<fixedVars, uniqueId, token, authBusy, authError, tab, levelsBusy,
                   levelsError, homeVars>>

\* fetchHof, from the settling of res.text() to the end
fetchHofText(r) ==
    /\ Awaiting(r, "fetchHof", "text")
    /\ \/ \E body \in HofBodies :
              /\ hofRows' = parseHofRaw(body, hasWindow)
              /\ decoded' = decoded \cup {r}
              /\ reqs' = [reqs EXCEPT ![r].pc = "done"]
              /\ UNCHANGED hofError
       \/ /\ reqs' = Failed(r)
          /\ hofError' = Message
          /\ UNCHANGED <<hofRows, decoded>>
    /\ hofBusy' = FALSE
    /\ UNCHANGED <<fixedVars, uniqueId, token, authBusy, authError, tab, levelsBusy,
                   levelsError, homeVars>>

\* the search, sort and difficulty controls of the levels tab: setPage(1), the new
\* filter value, and the effect of the render that follows
onFilterChange ==
    /\ mounted = "IndexPage"
    /\ tab = "levels"
    /\ page' = PageOf(1)
    /\ useEffect(TRUE, tab, uniqueId, token, PageOf(1), reqs)
    /\ Len(reqs') <= MaxCalls
    /\ UNCHANGED <<fixedVars, uniqueId, token, authBusy, authError, hofRows, hofBusy, hofError,
                   tab, auth, loading, levels, hasMore, decoded>>

\* the Fetch button of the levels tab (disabled while levelsBusy and without
\* uniqueId and token): setPage(1), fetchLevels() with the page of this render in
\* its closure, and, when the page changed, the effect of the render that follows
onClickFetchLevels ==
    /\ mounted = "IndexPage"
    /\ tab = "levels"
    /\ ~(levelsBusy \/ uniqueId = <<>> \/ token = <<>>)
    /\ page' = PageOf(1)
    /\ IF page = PageOf(1)
       THEN fetchLevels(uniqueId, token, page, reqs)
       ELSE fetchLevels(uniqueId, token, PageOf(1), Append(reqs, Req("fetchLevels", page)))
    /\ Len(reqs') <= MaxCalls
    /\ UNCHANGED <<fixedVars, uniqueId, token, authBusy, authError, hofRows, hofBusy, hofError,
                   tab, auth, loading, levels, hasMore, decoded>>

\* fetchLevels, from the settling of fetch to the next await or the end
fetchLevelsSettled(r) ==
    /\ Awaiting(r, "fetchLevels", "fetch")
    /\ \E o \in Outcomes :
           IF o = "ok"
           THEN /\ reqs' = [reqs EXCEPT ![r].pc = "text", ![r].status = o, ![r].okSeen = TRUE]
                /\ UNCHANGED <<levelsBusy, levelsError>>
           ELSE /\ reqs' = [Failed(r) EXCEPT ![r].status = o]
                /\ levelsError' = Message
                /\ levelsBusy' = FALSE
    /\ UNCHANGED <<fixedVars, uniqueId, token, authBusy, authError, hofRows, hofBusy, hofError,
                   tab, homeVars, decoded>>

\* fetchLevels, from the settling of res.json() to the end
fetchLevelsJson(r) ==
    /\ Awaiting(r, "fetchLevels", "text")
    /\ \/ \E data \in LevelReplies :
              /\ levels' = data.levels
              /\ hasMore' = data.hasMoreLevels
              /\ reqs' = [reqs EXCEPT ![r].pc = "done", ![r].result = data]
              /\ UNCHANGED levelsError
       \/ /\ reqs' = Failed(r)
          /\ levelsError' = Message
          /\ UNCHANGED <<levels, hasMore>>
    /\ levelsBusy' = FALSE
    /\ UNCHANGED <<fixedVars, uniqueId, token, authBusy, authError, hofRows, hofBusy, hofError,
                   tab, auth, loading, page, decoded>>

\* ---- Home

\* postForm without the check of res.ok
postFormNeverThrows(status) == FALSE

\* if (!res.ok) throw, in postForm
postFormThrows(status) == status # "ok"

\* dict[key] || "" of doAuth: the pairs of resp.trim().split("&"), each split at
\* its equals signs; a later pair of the same key wins
DictGet(resp, key) ==
    LET ps   == Split(Trim(resp), <<"&">>)
        hits == {i \in 1..Len(ps) : Split(ps[i], <<"=">>)[1] = key}
        last == CHOOSE i \in hits : \A j \in hits : j <= i
        kv   == Split(ps[last], <<"=">>)
    IN  IF hits = {} \/ Len(kv) < 2 THEN <<>> ELSE kv[2]

\* doAuth, to its first await (postForm throws at once when the base is not set)
doAuth ==
    /\ mounted = "Home"
    /\ ~loading
    /\ Len(reqs) < MaxRequests
    /\ IF apiBase
       THEN /\ loading' = TRUE
            /\ reqs' = Append(reqs, Req("doAuth", NoPage))
       ELSE /\ loading' = FALSE
            /\ UNCHANGED reqs
    /\ UNCHANGED <<fixedVars, ipVars, auth, levels, hasMore, page, decoded>>

\* fetchList setting the page when the request is issued, not when it succeeds
fetchListPageFirst(pg) ==
    /\ Len(reqs) < MaxRequests
    /\ auth # NoAuth /\ apiBase
    /\ loading' = TRUE
    /\ page' = pg
    /\ reqs' = Append(reqs, Req("fetchList", pg))
    /\ UNCHANGED <<fixedVars, ipVars, auth, levels, hasMore, decoded>>

\* fetchList(opts), to its first await
fetchList(pg) ==
    /\ Len(reqs) < MaxRequests
    /\ IF auth = NoAuth
       THEN UNCHANGED <<loading, reqs>>
       ELSE IF apiBase
       THEN /\ loading' = TRUE
            /\ reqs' = Append(reqs, Req("fetchList", pg))
       ELSE /\ loading' = FALSE
            /\ UNCHANGED reqs
    /\ UNCHANGED <<fixedVars, ipVars, auth, levels, hasMore, page, decoded>>

\* the texts the Page input of LevelSearchForm can hold (a number input holds a
\* valid floating-point number or nothing)
PageTexts == {Str("1"), Str("2"), <<>>, Str("0"), Str("-1"), Str(".5")}

\* the page state of LevelSearchForm after the input came to hold text
FormPage(text) == parseInt(IF text = <<>> THEN Str("1") ELSE text)

\* the Page input with min = 1 lets the form submit: React writes the page state
\* back as the input's value, NaN becoming the empty value, which has no minimum
PageInputValid(pg) == pg.isNaN \/ pg.value >= 1

\* LevelSearchForm's Fetch button (disabled while loading and without auth), with
\* the page its input holds
onSearch ==
    /\ mounted = "Home"
    /\ ~(loading \/ auth = NoAuth)
    /\ \E text \in PageTexts :
           /\ PageInputValid(FormPage(text))
           /\ fetchList(FormPage(text))

\* LevelTable's Prev button (disabled on page 1)
onPrev ==
    /\ mounted = "Home"
    /\ ~PageLte(page, 1)
    /\ fetchList(MathMax1(PagePlus(page, -1)))

\* LevelTable's Next button (disabled when there are no more levels)
onNext ==
    /\ mounted = "Home"
    /\ hasMore
    /\ fetchList(PagePlus(page, 1))

\* the record once handler fn of request r returned after a throw
Thrown(r) == IF reqs[r].fn \in Recorded THEN Failed(r) ELSE Drop(r)

\* postForm, from the settling of fetch to its next await; a rejection goes to the
\* caller's catch (an alert) and finally
postFormSettled(r) ==
    /\ Awaiting(r, "doAuth", "fetch") \/ Awaiting(r, "fetchList", "fetch")
    /\ \E o \in Outcomes :
           IF o = "networkError"
           THEN /\ reqs' = IF reqs[r].fn = "doAuth" THEN Drop(r)
                           ELSE [Failed(r) EXCEPT ![r].status = o]
                /\ decoded' = IF reqs[r].fn = "doAuth" THEN Shift(r) ELSE decoded
                /\ loading' = FALSE
           ELSE /\ reqs' = [reqs EXCEPT ![r].pc = "text", ![r].status = o]
                /\ UNCHANGED <<loading, decoded>>
    /\ UNCHANGED <<fixedVars, ipVars, auth, levels, hasMore, page>>

\* doAuth after postForm returned resp
doAuthResume(r, resp) ==
    LET u == DictGet(resp, Str("uniqueId"))
        k == DictGet(resp, Str("token"))
    IN  /\ auth' = IF u = <<>> \/ k = <<>> THEN auth ELSE [uniqueId |-> u, token |-> k]
        /\ reqs' = Drop(r)
        /\ decoded' = Shift(r)
        /\ UNCHANGED <<levels, hasMore, page>>

\* fetchList after postForm returned resp
fetchListResume(r, resp) ==
    LET parsed == parseLevelList(resp)
    IN  /\ levels' = parsed.levels
        /\ hasMore' = parsed.hasMoreLevels
        /\ page' = reqs[r].page
        /\ decoded' = decoded \cup {r}
        /\ reqs' = [reqs EXCEPT ![r].pc = "done", ![r].okSeen = (reqs[r].status = "ok"),
                                 ![r].result = parsed]
        /\ UNCHANGED auth

\* postForm from the settling of res.text() on, and its caller to the end
postFormText(r) ==
    /\ Awaiting(r, "doAuth", "text") \/ Awaiting(r, "fetchList", "text")
    /\ \/ \E resp \in IF reqs[r].fn = "doAuth" THEN AuthBodies ELSE ListBodies :
              IF postFormThrows(reqs[r].status)
              THEN /\ reqs' = Thrown(r)
                   /\ decoded' = IF reqs[r].fn = "doAuth" THEN Shift(r) ELSE decoded
                   /\ UNCHANGED <<auth, levels, hasMore, page>>
              ELSE IF reqs[r].fn = "doAuth" THEN doAuthResume(r, resp)
              ELSE fetchListResume(r, resp)
       \/ /\ reqs' = Thrown(r)
          /\ decoded' = IF reqs[r].fn = "doAuth" THEN Shift(r) ELSE decoded
          /\ UNCHANGED <<auth, levels, hasMore, page>>
    /\ loading' = FALSE
    /\ UNCHANGED <<fixedVars, ipVars>>

InitFetch ==
    /\ hasWindow = TRUE
    /\ HofIdle
    /\ LvlIdle
    /\ ScIdle
    /\ mounted \in {"IndexPage", "Home"}
    /\ apiBase \in (IF mounted = "Home" THEN BOOLEAN ELSE {TRUE})
    /\ UiFresh

NextFetch ==
    \/ TypeUniqueId
    \/ TypeToken
    \/ authenticate
    \/ \E r \in 1..Len(reqs) : authenticateSettled(r)
    \/ \E r \in 1..Len(reqs) : authenticateJson(r)
    \/ onClickFetchHof
    \/ \E r \in 1..Len(reqs) : fetchHofSettled(r)
    \/ \E r \in 1..Len(reqs) : fetchHofText(r)
    \/ doAuth
    \/ onSearch
    \/ onPrev
    \/ onNext
    \/ \E r \in 1..Len(reqs) : postFormSettled(r)
    \/ \E r \in 1..Len(reqs) : postFormText(r)

SpecFetch == InitFetch /\ [][NextFetch]_vars

--------------------------------------------------------------------------
(* IndexPage with every response arriving in the end *)

\* a call of fetchHof, and one of fetchLevels, made while uniqueId or token is
\* missing: no button and no effect makes such a call, the guard at the head of
\* the handler is what answers it
fetchHofUnauthenticated ==
    /\ uniqueId = <<>> \/ token = <<>>
    /\ fetchHof

fetchLevelsUnauthenticated ==
    /\ mounted = "IndexPage"
    /\ uniqueId = <<>> \/ token = <<>>
    /\ fetchLevels(uniqueId, token, page, reqs)
    /\ UNCHANGED <<fixedVars, uniqueId, token, authBusy, authError, hofRows, hofBusy, hofError,
                   tab, homeVars, decoded>>

\* the next step of the handler of request r, when its await settles
Settle(r) ==
    \/ authenticateSettled(r)
    \/ authenticateJson(r)
    \/ fetchHofSettled(r)
    \/ fetchHofText(r)
    \/ fetchLevelsSettled(r)
    \/ fetchLevelsJson(r)

InitIndex ==
    /\ hasWindow = TRUE
    /\ HofIdle
    /\ LvlIdle
    /\ ScIdle
    /\ mounted = "IndexPage"
    /\ apiBase = TRUE
    /\ UiFresh

NextIndex ==
    \/ TypeUniqueId
    \/ TypeToken
    \/ setTab
    \/ authenticate
    \/ onClickFetchHof
    \/ onFilterChange
    \/ onClickFetchLevels
    \/ fetchHofUnauthenticated
    \/ fetchLevelsUnauthenticated
    \/ \E r \in 1..Len(reqs) : Settle(r)

\* every fetch and every body read settles: the promise resolves or rejects
SpecIndex ==
    InitIndex /\ [][NextIndex]_vars /\ \A r \in 1..MaxCalls : WF_vars(Settle(r))

--------------------------------------------------------------------------
(* Claims about the fetch handlers *)

Decoders == {"fetchHof", "fetchList"}

\* C10: a decoder is called only for a response the code has seen to be ok; a
\* request that failed (network failure, a status that is not ok) had its error
\* raised and its response was never decoded
C10_DecodeOnlyOnSuccess ==
    /\ \A r \in decoded :
           /\ reqs[r].fn \in Decoders
           /\ reqs[r].status = "ok"
           /\ reqs[r].okSeen
    /\ \A r \in 1..Len(reqs) :
           (reqs[r].fn \in Decoders /\ reqs[r].status \in {"networkError", "notOk"}
                /\ reqs[r].pc = "done") =>
               (reqs[r].raised /\ r \notin decoded)

\* the requests for a level list, and the one issued last
ListRequests == {r \in 1..Len(reqs) : reqs[r].fn \in {"fetchList", "fetchLevels"}}

Latest == CHOOSE r \in ListRequests : \A q \in ListRequests : q <= r

\* C14: once every level-list request has completed, and the one issued last has
\* succeeded, the levels and hasMore on screen are those of its response
C14_LatestRequestShown ==
    (/\ ListRequests # {}
     /\ \A r \in ListRequests : reqs[r].pc = "done"
     /\ reqs[Latest].status = "ok"
     /\ ~reqs[Latest].raised) =>
        /\ levels = reqs[Latest].result.levels
        /\ hasMore = reqs[Latest].result.hasMoreLevels

\* request r is a fetchList call that returns in this step
Returns(r) ==
    /\ Len(reqs') = Len(reqs)
    /\ reqs[r].fn = "fetchList"
    /\ reqs[r].pc # "done"
    /\ reqs'[r].pc = "done"

\* a fetchList call that fails leaves levels, hasMore and page as they were and
\* sets loading to false
FailureFrame ==
    \A r \in 1..Len(reqs) :
        (Returns(r) /\ reqs'[r].raised) =>
            /\ UNCHANGED <<levels, hasMore, page>>
            /\ loading' = FALSE

\* in Home, levels, hasMore and page change only in the step in which a
\* fetchList call returns without a throw, and then all three are set from its
\* response and its page
ChangeTogether ==
    (mounted = "Home" /\ <<levels, hasMore, page>>' # <<levels, hasMore, page>>) =>
        \E r \in 1..Len(reqs) :
            /\ Returns(r)
            /\ ~reqs'[r].raised
            /\ levels' = reqs'[r].result.levels
            /\ hasMore' = reqs'[r].result.hasMoreLevels
            /\ page' = reqs'[r].page

\* the page on screen is the page of the request whose response gave the levels
\* on screen (before any response: page 1 and no levels)
PageOfShownLevels ==
    mounted = "Home" =>
        \/ levels = <<>> /\ ~hasMore /\ page = PageOf(1)
        \/ \E r \in decoded :
               /\ levels = reqs[r].result.levels
               /\ hasMore = reqs[r].result.hasMoreLevels
               /\ page = reqs[r].page

\* C15: a failed fetchList call leaves levels, hasMore and page alone and resets
\* loading; the three change only together, on a success, so the page on screen
\* is that of the response on screen
C15_FailureLeavesList ==
    []PageOfShownLevels /\ [][FailureFrame /\ ChangeTogether]_vars

\* C15 witness: a response of page 2 is on screen, a later fetchList call has
\* failed, and loading is false
C15_Witness ==
    /\ mounted = "Home"
    /\ ~loading
    /\ page = PageOf(2)
    /\ levels # <<>>
    /\ \E r \in decoded : \E q \in (r + 1)..Len(reqs) :
           /\ reqs[r].page = page
           /\ levels = reqs[r].result.levels
           /\ reqs[q].fn = "fetchList"
           /\ reqs[q].pc = "done"
           /\ reqs[q].raised
           /\ reqs[q].page # page

\* the calls of handler fn that have not returned
InFlight(fn) == {r \in 1..Len(reqs) : reqs[r].fn = fn /\ reqs[r].pc # "done"}

\* a call of fn returns in this step: one fewer is in flight
Return(fn) == Cardinality(InFlight(fn))' < Cardinality(InFlight(fn))

\* a call of fn issues its request in this step
Issue(fn) == Cardinality(InFlight(fn))' > Cardinality(InFlight(fn))

\* the busy flag is set when the request is issued and is false when a call returns
BusyFrame ==
    /\ Issue("authenticate") => authBusy'
    /\ Issue("fetchHof") => hofBusy'
    /\ Issue("fetchLevels") => levelsBusy'
    /\ Return("authenticate") => ~authBusy'
    /\ Return("fetchHof") => ~hofBusy'
    /\ Return("fetchLevels") => ~levelsBusy'
    /\ authBusy' /\ ~authBusy => Issue("authenticate")
    /\ hofBusy' /\ ~hofBusy => Issue("fetchHof")
    /\ levelsBusy' /\ ~levelsBusy => Issue("fetchLevels")

\* a call of fetchHof or fetchLevels without uniqueId or token sets the message
\* and nothing else
GuardFrame ==
    /\ fetchHofUnauthenticated =>
           /\ hofError' = "Please authenticate first."
           /\ UNCHANGED <<reqs, hofBusy, hofRows>>
    /\ fetchLevelsUnauthenticated =>
           /\ levelsError' = "Please authenticate first."
           /\ UNCHANGED <<reqs, levelsBusy, levels, hasMore>>

\* C16: every call of authenticate, fetchHof or fetchLevels that set its busy flag
\* returns in the end, and the flag is false when it does, whatever the response
\* (so at every moment there is a later one with no call in flight and the flag
\* false);
\* a call of fetchHof or fetchLevels without uniqueId and token sets the error
\* message, issues no request and leaves the busy flag and the rows alone
C16_BusyFlagsReset ==
    /\ [][BusyFrame /\ GuardFrame]_vars
    /\ []<>(InFlight("authenticate") = {} /\ ~authBusy)
    /\ []<>(InFlight("fetchHof") = {} /\ ~hofBusy)
    /\ []<>(InFlight("fetchLevels") = {} /\ ~levelsBusy)

\* C16 witness: a fetchHof request got a status that is not ok and its call has
\* returned with hofBusy false; a later call without the token has set the message
C16_Witness ==
    /\ mounted = "IndexPage"
    /\ token = <<>>
    /\ hofError = "Please authenticate first."
    /\ ~hofBusy
    /\ \E r \in 1..Len(reqs) :
           /\ reqs[r].fn = "fetchHof"
           /\ reqs[r].status = "notOk"
           /\ reqs[r].pc = "done"
           /\ reqs[r].raised

\* C17: in Home the page state is a number and at least 1, whatever the Page input
\* of the form held at a search and whatever Prev and Next clicks were made
C17_PageAtLeastOne == mounted = "Home" => (~page.isNaN /\ page.value >= 1)

\* C10 witness: one response was decoded, another request of the same handler got
\* a status that is not ok and ended in the catch block
C10_Witness ==
    \E r \in decoded : \E q \in 1..Len(reqs) :
        /\ reqs[q].fn = reqs[r].fn
        /\ reqs[q].status = "notOk"
        /\ reqs[q].pc = "done"
        /\ reqs[q].raised
        /\ reqs[r].fn = "fetchList"

--------------------------------------------------------------------------
(* Claims about the scalar helpers *)

\* a text that no base64 decoder accepts: a character outside the alphabet, or a
\* length that no padding completes (white space set aside)
NotBase64(s) == AtobThrows(s)

\* C8: a text that is not valid base64 comes back unchanged from safeBase64Decode
\* and from b64decodeSafe
C8_InvalidBase64Unchanged ==
    (scPc \in {"safeBase64Decode", "b64decodeSafe"} /\ NotBase64(scIn.val)) =>
        scOut = scIn.val

\* C9: num gives null for an absent or blank field and for a text whose parse is
\* not a finite number, the parsed value otherwise; never zero for a text that is
\* no number
C9_NumOrNull ==
    scPc = "num" =>
        /\ (~scIn.has \/ Trim(scIn.val) = <<>>) => scOut = JsNull
        /\ (scIn.has /\ Trim(scIn.val) # <<>>) =>
               LET n == Number(scIn.val)
               IN  /\ n.kind = "fin" => scOut = n
                   /\ n.kind # "fin" => scOut = JsNull
        /\ (scIn.has /\ scIn.val \in {<<>>, Str("   "), Str("abc")}) => scOut = JsNull
        /\ (scIn.has /\ scIn.val = Str("12.5")) => scOut = [kind |-> "fin", m |-> 125, e |-> -1]
        /\ scOut = [kind |-> "fin", m |-> 0, e |-> 0] =>
               \E i \in 1..Len(scIn.val) : scIn.val[i] = "0"

\* C9 witness: num ran on a text that is not blank and is no number, and gave null
C9_Witness ==
    /\ scPc = "num"
    /\ scIn.has
    /\ Trim(scIn.val) # <<>>
    /\ Number(scIn.val) = NaN
    /\ \E i \in 1..Len(scIn.val) : IsDigit(scIn.val[i])
    /\ scOut = JsNull

--------------------------------------------------------------------------
(* Claims about parseHofRaw *)

HofParts == Split(Trim(hofIn), <<",">>)

\* the first position of the run of equal scores that ends at position p
GroupStart(rows, p) ==
    CHOOSE q \in 1..p :
        /\ \A k \in q..p : rows[k].score = rows[p].score
        /\ \A r \in 1..(q - 1) : \E k \in r..p : rows[k].score # rows[p].score

\* C1: every row's rank is the ordinal of the first position of its run of equal
\* scores (standard competition ranking: 1st, 2nd, 2nd, 4th)
C1_CompetitionRanking ==
    hofPc = "done" =>
        \A p \in 1..Len(hofOut) : hofOut[p].rank = ordinal(GroupStart(hofOut, p))

\* C1 witness: four rows ranked 1st, 2nd, 2nd, 4th
C1_Witness ==
    /\ hofPc = "done"
    /\ Len(hofOut) = 4
    /\ [p \in 1..4 |-> hofOut[p].rank] = <<Str("1st"), Str("2nd"), Str("2nd"), Str("4th")>>

\* the text of a token before its first slash, and the text between its first
\* and its second slash (empty when the token holds no slash)
ScoreText(p) == Split(p, <<"/">>)[1]

NameText(p) == IF Includes(p, "/") THEN Split(p, <<"/">>)[2] ELSE <<>>

Decoded(s) == b64decodeSafe(s, hasWindow)

PairOf(row) == <<row.player, row.score>>

\* C2: with two tokens or more, token 0's decoded name is paired with the integer
\* before the first slash of token 1; every row comes from that pair or from a
\* token 2, 3, ...; the tail of token 1 is nobody's name; at most n-1 rows
C2_HeaderPairing ==
    (hofPc = "done" /\ Len(HofParts) >= 2) =>
        LET parts == HofParts
            n     == Len(parts)
            name0 == Decoded(parts[1])
            sc1   == parseInt(ScoreText(parts[2]))
            tail1 == Decoded(NameText(parts[2]))
            names == [i \in 3..n |-> Decoded(NameText(parts[i]))]
            Later == {<<names[i], parseInt(ScoreText(parts[i])).value>> : i \in 3..n}
            pairs == {PairOf(hofOut[p]) : p \in 1..Len(hofOut)}
        IN  /\ Len(hofOut) <= n - 1
            /\ (~sc1.isNaN /\ Trim(name0) # <<>>) => <<name0, sc1.value>> \in pairs
            /\ pairs \subseteq ({<<name0, sc1.value>>} \cup Later)
            /\ (tail1 # name0 /\ \A i \in 3..n : names[i] # tail1) =>
                   \A p \in 1..Len(hofOut) : hofOut[p].player # tail1

\* C2 witness: the header pair gave a row, token 1 has a tail that would decode to
\* a name, and later tokens gave rows too
C2_Witness ==
    /\ hofPc = "done"
    /\ Len(HofParts) >= 4
    /\ Len(hofOut) = Len(HofParts) - 1
    /\ Trim(Decoded(NameText(HofParts[2]))) # <<>>
    /\ \A p \in 1..Len(hofOut) : hofOut[p].player # Decoded(NameText(HofParts[2]))
    /\ \E p \in 1..Len(hofOut) : hofOut[p].player = Decoded(HofParts[1])

\* the pairs in the order parseHofRaw derives them, each with whether the claim
\* says it gives a row: the header pair, then tokens 2, 3, ...
Candidates ==
    LET parts == HofParts
        Cand(nameText, scoreText) ==
            LET nm == Decoded(nameText)
                sc == parseInt(scoreText)
            IN  [name |-> nm, score |-> sc.value,
                 keep |-> ~sc.isNaN /\ Trim(nm) # <<>>]
    IN  IF Len(parts) < 2 THEN <<>>
        ELSE [i \in 1..(Len(parts) - 1) |->
                 IF i = 1 THEN Cand(parts[1], ScoreText(parts[2]))
                 ELSE Cand(NameText(parts[i + 1]), ScoreText(parts[i + 1]))]

Kept == SelectSeq(Candidates, LAMBDA c : c.keep)

\* C3: the rows are in non-increasing score order, rows of equal score are in the
\* order their pairs were derived, and the ranks follow the sorted order (the first
\* row is 1st, no row's rank exceeds its position)
C3_StableDescending ==
    hofPc = "done" =>
        LET kept == Kept
        IN  /\ \A p \in 1..(Len(hofOut) - 1) : hofOut[p].score >= hofOut[p + 1].score
            /\ \A v \in {hofOut[p].score : p \in 1..Len(hofOut)} :
                   LET rs == SelectSeq(hofOut, LAMBDA r : r.score = v)
                       ks == SelectSeq(kept, LAMBDA c : c.score = v)
                   IN  [p \in 1..Len(rs) |-> rs[p].player] = [p \in 1..Len(ks) |-> ks[p].name]
            /\ hofOut # <<>> => hofOut[1].rank = ordinal(1)
            /\ \A p \in 1..Len(hofOut) : \E q \in 1..p : hofOut[p].rank = ordinal(q)

\* C3 witness: the sort moved a later pair to the front, and two rows of equal score
\* with different players follow each other
C3_Witness ==
    /\ hofPc = "done"
    /\ Len(Kept) >= 3
    /\ hofOut[1].score > Kept[1].score
    /\ \E p \in 1..(Len(hofOut) - 1) :
           /\ hofOut[p].score = hofOut[p + 1].score
           /\ hofOut[p].player # hofOut[p + 1].player

Count(seq, x) == Cardinality({i \in 1..Len(seq) : seq[i] = x})

\* C4: a pair gives a row exactly when its score parses and its decoded name is not
\* blank; the rows are exactly the kept pairs, names and scores unchanged, however
\* many other pairs were dropped
C4_DropOnlyBadPairs ==
    hofPc = "done" =>
        LET cands == Candidates
            all   == [i \in 1..Len(cands) |-> <<cands[i].name, cands[i].score>>]
            kept  == SelectSeq(cands, LAMBDA c : c.keep)
            pairs == [i \in 1..Len(kept) |-> <<kept[i].name, kept[i].score>>]
            rows  == [p \in 1..Len(hofOut) |-> PairOf(hofOut[p])]
        IN  /\ Len(rows) = Len(pairs)
            /\ \A i \in 1..Len(all) : Count(rows, all[i]) = Count(pairs, all[i])

\* C4 witness: a pair dropped for its score and a pair dropped for its blank name,
\* with kept pairs before and after them
C4_Witness ==
    /\ hofPc = "done"
    /\ Len(Candidates) >= 4
    /\ Candidates[1].keep
    /\ Candidates[Len(Candidates)].keep
    /\ \E i \in 2..(Len(Candidates) - 1) : parseInt(ScoreText(HofParts[i + 1])).isNaN
    /\ \E i \in 2..(Len(Candidates) - 1) :
           /\ ~parseInt(ScoreText(HofParts[i + 1])).isNaN
           /\ Candidates[i].name # <<>>
           /\ Trim(Candidates[i].name) = <<>>
    /\ Len(hofOut) = 2

====
